---- MODULE Spec2Model ----
(***************************************************************************)
(* Model of assignment2.py: the Excel-to-folium map generator.             *)
(*                                                                         *)
(* Three specifications share the variables below:                         *)
(*   SpecParse  parse_coordinate_string applied to a column of cells       *)
(*   SpecLayer  one layer builder applied to one dataset on a fresh map    *)
(*   Spec       one run of create_map_from_excel                           *)
(*                                                                         *)
(* Text is a sequence of one-character strings.  A spreadsheet cell is a   *)
(* tagged record: Null (NaN / blank), Num(n) or Str(text).  A decoded JSON *)
(* value is N(n) (a number) or A(seq) (a list).  Numbers are integers;     *)
(* Python's 1 == 1.0, so the int that json.loads yields and the float that *)
(* float() yields for the same digits are the same value here.             *)
(***************************************************************************)
EXTENDS Integers, Sequences, FiniteSets, TLC

VARIABLES
    coord_strs,   \* SpecParse: the cells handed to parse_coordinate_string, in order
    parsed,       \* SpecParse: what each call returned, in order
    data,         \* SpecParse: the pair sequence the cells encode, or NoData
    layer,        \* SpecLayer: which builder is called
    df,           \* SpecLayer: the dataset handed to the builder
    pc,           \* program position
    excel_data,   \* Spec: sheet name -> dataset (or None)
    arg_lat,      \* Spec: center_lat as passed by the caller
    arg_lon,      \* Spec: center_lon as passed by the caller
    center_lat,   \* Spec: local center_lat
    center_lon,   \* Spec: local center_lon
    m,            \* the folium map: None, or [location, children]
    output_file,  \* Spec: None, or the map state written by m.save
    steps,        \* Spec: the steps executed so far, in order
    use_cluster   \* the use_cluster argument of add_markers

vars == <<coord_strs, parsed, data, layer, df, pc, excel_data, arg_lat, arg_lon,
          center_lat, center_lon, m, output_file, steps, use_cluster>>

(***************************************************************************)
(* Bounds                                                                  *)
(***************************************************************************)
MaxLen == 4      \* longest raw text cell enumerated for the parser
MaxPairs == 3    \* longest coordinate sequence encoded in both formats
MaxDfRows == 2   \* most rows of the dataset handed to a single builder
MaxRows == 2     \* most rows in the whole workbook of one run

(***************************************************************************)
(* Values                                                                  *)
(***************************************************************************)
None == [k |-> "None"]
Null == [k |-> "null"]
Num(n) == [k |-> "num", n |-> n]
Str(s) == [k |-> "str", s |-> s]
N(n) == [num |-> n]
A(s) == [arr |-> s]

\* pd.isna / pd.notna on a scalar cell (None and NaN are both "na")
isna(c) == c.k \in {"null", "None"}
notna(c) == ~isna(c)

\* row.get(col, default) on a row whose index is the dataset's columns
RowGet(row, col, default) == IF col \in DOMAIN row THEN row[col] ELSE default

(***************************************************************************)
(* Text helpers (str.strip, str.startswith, str.split, in)                 *)
(***************************************************************************)
Digits == {"1", "2", "3"}
DigitVal(c) == CASE c = "1" -> 1 [] c = "2" -> 2 [] c = "3" -> 3

RECURSIVE LStrip(_)
LStrip(s) == IF s # <<>> /\ Head(s) = " " THEN LStrip(Tail(s)) ELSE s

RECURSIVE RStrip(_)
RStrip(s) == IF s # <<>> /\ s[Len(s)] = " " THEN RStrip(SubSeq(s, 1, Len(s) - 1)) ELSE s

Strip(s) == RStrip(LStrip(s))

StartsWith(s, c) == s # <<>> /\ s[1] = c

Contains(s, c) == \E i \in 1..Len(s) : s[i] = c

\* s.split(sep): always at least one piece; empty pieces are kept
RECURSIVE SplitFrom(_, _, _, _)
SplitFrom(s, sep, i, cur) ==
    IF i > Len(s) THEN <<cur>>
    ELSE IF s[i] = sep THEN <<cur>> \o SplitFrom(s, sep, i + 1, <<>>)
    ELSE SplitFrom(s, sep, i + 1, Append(cur, s[i]))

Split(s, sep) == SplitFrom(s, sep, 1, <<>>)

(***************************************************************************)
(* float(text): surrounding whitespace is stripped, then an optional sign  *)
(* and at least one digit; anything else raises ValueError (ok = FALSE).   *)
(***************************************************************************)
RECURSIVE DigitsValue(_, _)
DigitsValue(s, acc) ==
    IF s = <<>> THEN acc ELSE DigitsValue(Tail(s), acc * 10 + DigitVal(Head(s)))

AllDigits(s) == s # <<>> /\ \A i \in 1..Len(s) : s[i] \in Digits

\* float() that loses the sign
PyFloatNoSign(text) ==
    LET t == Strip(text) IN
    IF AllDigits(t) THEN [ok |-> TRUE, val |-> DigitsValue(t, 0)]
    ELSE IF t # <<>> /\ Head(t) = "-" /\ AllDigits(Tail(t))
         THEN [ok |-> TRUE, val |-> DigitsValue(Tail(t), 0)]
    ELSE [ok |-> FALSE, val |-> 0]

PyFloat(text) ==
    LET t == Strip(text) IN
    IF AllDigits(t) THEN [ok |-> TRUE, val |-> DigitsValue(t, 0)]
    ELSE IF t # <<>> /\ Head(t) = "-" /\ AllDigits(Tail(t))
         THEN [ok |-> TRUE, val |-> 0 - DigitsValue(Tail(t), 0)]
    ELSE [ok |-> FALSE, val |-> 0]

(***************************************************************************)
(* json.loads restricted to the characters of the model: whitespace,       *)
(* integers and nested arrays.  Any other character is a decode error.     *)
(***************************************************************************)
RECURSIVE SkipWs(_, _)
SkipWs(s, i) == IF i <= Len(s) /\ s[i] = " " THEN SkipWs(s, i + 1) ELSE i

RECURSIVE DigitsEnd(_, _)
DigitsEnd(s, i) == IF i <= Len(s) /\ s[i] \in Digits THEN DigitsEnd(s, i + 1) ELSE i

JsonFail == [ok |-> FALSE, val |-> N(0), pos |-> 0]

\* NUMBER_RE.match at position i: -?[1-9]\d*
JsonNumber(s, i) ==
    LET start == IF s[i] = "-" THEN i + 1 ELSE i
        end == DigitsEnd(s, start)
    IN IF end = start THEN JsonFail
       ELSE [ok |-> TRUE,
             val |-> N(IF s[i] = "-" THEN 0 - DigitsValue(SubSeq(s, start, end - 1), 0)
                       ELSE DigitsValue(SubSeq(s, start, end - 1), 0)),
             pos |-> end]

RECURSIVE JsonValue(_, _)
RECURSIVE JsonItems(_, _, _)

\* JSONArray's loop: value, whitespace, then ']' or ','
JsonItems(s, i, acc) ==
    LET v == JsonValue(s, i) IN
    IF ~v.ok THEN JsonFail
    ELSE LET e == SkipWs(s, v.pos) IN
         IF e > Len(s) THEN JsonFail
         ELSE IF s[e] = "]" THEN [ok |-> TRUE, val |-> A(Append(acc, v.val)), pos |-> e + 1]
         ELSE IF s[e] = "," THEN JsonItems(s, SkipWs(s, e + 1), Append(acc, v.val))
         ELSE JsonFail

\* scan_once at position i
JsonValue(s, i) ==
    IF i > Len(s) THEN JsonFail
    ELSE IF s[i] = "[" THEN
        LET j == SkipWs(s, i + 1) IN
        IF j <= Len(s) /\ s[j] = "]" THEN [ok |-> TRUE, val |-> A(<<>>), pos |-> j + 1]
        ELSE JsonItems(s, j, <<>>)
    ELSE IF s[i] = "-" \/ s[i] \in Digits THEN JsonNumber(s, i)
    ELSE JsonFail

\* json.loads: leading whitespace, one value, trailing whitespace, end of text
JsonLoads(s) ==
    LET v == JsonValue(s, SkipWs(s, 1)) IN
    IF v.ok /\ SkipWs(s, v.pos) = Len(s) + 1 THEN [ok |-> TRUE, val |-> v.val]
    ELSE [ok |-> FALSE, val |-> N(0)]

(***************************************************************************)
(* parse_coordinate_string                                                 *)
(***************************************************************************)
\* [float(x) for x in pair.split(',')]
RECURSIVE FloatList(_)
FloatList(parts) ==
    IF parts = <<>> THEN [ok |-> TRUE, val |-> <<>>]
    ELSE LET f == PyFloat(Head(parts))
             rest == FloatList(Tail(parts))
         IN IF f.ok /\ rest.ok THEN [ok |-> TRUE, val |-> <<N(f.val)>> \o rest.val]
            ELSE [ok |-> FALSE, val |-> <<>>]

\* [[float(x) for x in pair.split(',')] for pair in pairs]
RECURSIVE PairList(_)
PairList(pairs) ==
    IF pairs = <<>> THEN [ok |-> TRUE, val |-> <<>>]
    ELSE LET p == FloatList(Split(Head(pairs), ","))
             rest == PairList(Tail(pairs))
         IN IF p.ok /\ rest.ok THEN [ok |-> TRUE, val |-> <<A(p.val)>> \o rest.val]
            ELSE [ok |-> FALSE, val |-> <<>>]

\* The value returned; an exception inside the try block returns [].
parse_coordinate_string(coord_str) ==
    IF isna(coord_str) THEN <<>>
    ELSE IF coord_str.k = "str" /\ StartsWith(Strip(coord_str.s), "[") THEN
        LET j == JsonLoads(coord_str.s) IN IF j.ok THEN j.val.arr ELSE <<>>
    ELSE IF coord_str.k = "str" /\ Contains(coord_str.s, ";") THEN
        LET r == PairList(Split(coord_str.s, ";")) IN IF r.ok THEN r.val ELSE <<>>
    ELSE <<>>

(***************************************************************************)
(* The two textual encodings of a coordinate sequence, as the module       *)
(* docstring and the parser's comments give them:                          *)
(*   "[[lat1,lon1],[lat2,lon2]]"   and   "lat1,lon1;lat2,lon2"             *)
(***************************************************************************)
CoordVals == {0 - 1, 1, 2, 3}

DigitChar(d) == CASE d = 1 -> "1" [] d = 2 -> "2" [] d = 3 -> "3"

NumText(n) == IF n < 0 THEN <<"-", DigitChar(0 - n)>> ELSE <<DigitChar(n)>>

PairText(p) == NumText(p[1]) \o <<",">> \o NumText(p[2])

RECURSIVE JoinPairs(_, _, _, _)
JoinPairs(ps, open, close, sep) ==
    IF ps = <<>> THEN <<>>
    ELSE open \o PairText(Head(ps)) \o close
         \o (IF Tail(ps) = <<>> THEN <<>> ELSE sep \o JoinPairs(Tail(ps), open, close, sep))

EncJson(ps) == <<"[">> \o JoinPairs(ps, <<"[">>, <<"]">>, <<",">>) \o <<"]">>
EncSemi(ps) == JoinPairs(ps, <<>>, <<>>, <<";">>)

(***************************************************************************)
(* SpecParse: parse_coordinate_string applied to each cell of a column.    *)
(* The column is either one arbitrary cell (blank, number or raw text) or  *)
(* the bracket and the semicolon encoding of one coordinate sequence.      *)
(***************************************************************************)
Alphabet == {"[", "]", ",", ";", "1", "2", "-", " ", "x"}

RawTexts == UNION {[1..n -> Alphabet] : n \in 0..MaxLen}

RawCells == {Null, Num(1)} \cup {Str(t) : t \in RawTexts}

PairSeqs == UNION {[1..n -> CoordVals \X CoordVals] : n \in 0..MaxPairs}

NoData == [has |-> FALSE, pairs |-> <<>>]

Idle == "idle"

InitParse ==
    /\ \/ /\ data = NoData
          /\ \E c \in RawCells : coord_strs = <<c>>
       \/ \E ps \in PairSeqs :
            /\ data = [has |-> TRUE, pairs |-> ps]
            /\ coord_strs = <<Str(EncJson(ps)), Str(EncSemi(ps))>>
    /\ parsed = <<>>
    /\ pc = "parse"
    /\ layer = Idle /\ df = None /\ excel_data = None
    /\ arg_lat = None /\ arg_lon = None /\ center_lat = None /\ center_lon = None
    /\ m = None /\ output_file = None /\ steps = <<>> /\ use_cluster = TRUE

ParseCell ==
    /\ pc = "parse"
    /\ Len(parsed) < Len(coord_strs)
    /\ parsed' = Append(parsed, parse_coordinate_string(coord_strs[Len(parsed) + 1]))
    /\ UNCHANGED <<coord_strs, data, layer, df, pc, excel_data, arg_lat, arg_lon,
                   center_lat, center_lon, m, output_file, steps, use_cluster>>

NextParse == ParseCell

SpecParse == InitParse /\ [][NextParse]_vars

IsNumber(v) == "num" \in DOMAIN v

IsPair(v) == "arr" \in DOMAIN v /\ Len(v.arr) = 2 /\ IsNumber(v.arr[1]) /\ IsNumber(v.arr[2])

IsPairList(r) == \A i \in 1..Len(r) : IsPair(r[i])

\* C1: every value parse_coordinate_string returns is the empty sequence or a
\* sequence whose every element is a pair of exactly two numbers.
C1_OnlyPairLists == \A i \in 1..Len(parsed) : IsPairList(parsed[i])

\* C3 (as stated): for every coordinate sequence, of any length including a
\* single pair, the bracket encoding and the semicolon encoding decode alike.
C3_FormatEquivalenceAnyLength ==
    (data.has /\ Len(parsed) = 2) => parsed[1] = parsed[2]

ExampleSemi == Str(<<"1", ",", "1", ";", "2", ",", "2", ";", "3", ",", "3">>)

ExampleDecoded == <<A(<<N(1), N(1)>>), A(<<N(2), N(2)>>), A(<<N(3), N(3)>>)>>

\* C3 (amended): for every coordinate sequence whose length is not one, the
\* bracket encoding and the semicolon encoding decode to the same pairs, and
\* "1,1;2,2;3,3" decodes to [[1,1],[2,2],[3,3]].
C3_FormatEquivalence ==
    /\ (data.has /\ Len(parsed) = 2 /\ Len(data.pairs) # 1) => parsed[1] = parsed[2]
    /\ (Len(parsed) = 2 /\ coord_strs[2] = ExampleSemi) => parsed[2] = ExampleDecoded

\* The documented example has been decoded from both encodings.
C3_Witness ==
    /\ data.has /\ Len(parsed) = 2
    /\ coord_strs[2] = ExampleSemi
    /\ parsed[1] = ExampleDecoded

(***************************************************************************)
(* Datasets and map elements.                                              *)
(*                                                                         *)
(* A dataset is None (sheet absent) or [cols, rows]; a row is a function   *)
(* from the dataset's columns to cells.  The map is [location, children].  *)
(* Of each folium element the model keeps its kind, its position and the   *)
(* attributes with a fallback chain (polygon colours, heat intensity);     *)
(* popup, tooltip, icon, weight, opacity and radius are plain              *)
(* row.get(col, default) look-ups and are left out.                        *)
(***************************************************************************)
\* colour names
Green == Str(<<"g", "r", "e", "e", "n">>)
Red == Str(<<"r", "e", "d">>)
Blue == Str(<<"b", "l", "u", "e">>)
LightBlue == Str(<<"l", "i", "g", "h", "t", "b", "l", "u", "e">>)

DataFrame(cols, rows) == [k |-> "df", cols |-> cols, rows |-> rows]

\* df.empty: no rows or no columns
IsEmpty(d) == d.rows = <<>> \/ d.cols = {}

AddTo(map_obj, element) == [map_obj EXCEPT !.children = Append(@, element)]

\* pd.notna(row.get('latitude')) and pd.notna(row.get('longitude'))
HasLatLon(row) ==
    notna(RowGet(row, "latitude", None)) /\ notna(RowGet(row, "longitude", None))

Marker(row) == [kind |-> "Marker", location |-> <<row["latitude"], row["longitude"]>>]

\* the markers the loop of add_markers creates, in row order
RECURSIVE MarkersOf(_)
MarkersOf(rows) ==
    IF rows = <<>> THEN <<>>
    ELSE (IF HasLatLon(Head(rows)) THEN <<Marker(Head(rows))>> ELSE <<>>)
         \o MarkersOf(Tail(rows))

add_markers(map_obj, df_markers, cluster) ==
    IF df_markers = None \/ IsEmpty(df_markers) THEN map_obj
    ELSE IF cluster
         THEN AddTo(map_obj, [kind |-> "MarkerCluster",
                              children |-> MarkersOf(df_markers.rows)])
         ELSE [map_obj EXCEPT !.children = @ \o MarkersOf(df_markers.rows)]

PolyLine(row, coordinates) == [kind |-> "PolyLine", locations |-> coordinates]

RECURSIVE LinesOf(_)
LinesOf(rows) ==
    IF rows = <<>> THEN <<>>
    ELSE LET coordinates == parse_coordinate_string(RowGet(Head(rows), "coordinates", None))
         IN (IF coordinates # <<>> THEN <<PolyLine(Head(rows), coordinates)>> ELSE <<>>)
            \o LinesOf(Tail(rows))

add_lines(map_obj, df_lines) ==
    IF df_lines = None \/ IsEmpty(df_lines) THEN map_obj
    ELSE [map_obj EXCEPT !.children = @ \o LinesOf(df_lines.rows)]

\* row.get('fill_color', row.get('color', 'lightblue'))
FillColor(row) == RowGet(row, "fill_color", RowGet(row, "color", LightBlue))

Polygon(row, coordinates) ==
    [kind |-> "Polygon", locations |-> coordinates,
     color |-> RowGet(row, "color", Blue),
     fill_color |-> FillColor(row)]

RECURSIVE PolygonsOf(_)
PolygonsOf(rows) ==
    IF rows = <<>> THEN <<>>
    ELSE LET coordinates == parse_coordinate_string(RowGet(Head(rows), "coordinates", None))
         IN (IF coordinates # <<>> THEN <<Polygon(Head(rows), coordinates)>> ELSE <<>>)
            \o PolygonsOf(Tail(rows))

add_polygons(map_obj, df_polygons) ==
    IF df_polygons = None \/ IsEmpty(df_polygons) THEN map_obj
    ELSE [map_obj EXCEPT !.children = @ \o PolygonsOf(df_polygons.rows)]

\* [row['latitude'], row['longitude'], row.get('intensity', 1)]
HeatPoint(row) == <<row["latitude"], row["longitude"], RowGet(row, "intensity", Num(1))>>

RECURSIVE HeatData(_)
HeatData(rows) ==
    IF rows = <<>> THEN <<>>
    ELSE (IF HasLatLon(Head(rows)) THEN <<HeatPoint(Head(rows))>> ELSE <<>>)
         \o HeatData(Tail(rows))

\* add_heatmap without the "if heat_data" guard
add_heatmap_unguarded(map_obj, df_heatmap) ==
    IF df_heatmap = None \/ IsEmpty(df_heatmap) THEN map_obj
    ELSE AddTo(map_obj, [kind |-> "HeatMap", data |-> HeatData(df_heatmap.rows)])

add_heatmap(map_obj, df_heatmap) ==
    IF df_heatmap = None \/ IsEmpty(df_heatmap) THEN map_obj
    ELSE LET heat_data == HeatData(df_heatmap.rows) IN
         IF heat_data # <<>> THEN AddTo(map_obj, [kind |-> "HeatMap", data |-> heat_data])
         ELSE map_obj

Circle(row) == [kind |-> "Circle", location |-> <<row["latitude"], row["longitude"]>>]

\* the loop leaving at the first row without a position instead of skipping it
RECURSIVE CirclesOfUntilInvalid(_)
CirclesOfUntilInvalid(rows) ==
    IF rows = <<>> \/ ~HasLatLon(Head(rows)) THEN <<>>
    ELSE <<Circle(Head(rows))>> \o CirclesOfUntilInvalid(Tail(rows))

RECURSIVE CirclesOf(_)
CirclesOf(rows) ==
    IF rows = <<>> THEN <<>>
    ELSE (IF HasLatLon(Head(rows)) THEN <<Circle(Head(rows))>> ELSE <<>>)
         \o CirclesOf(Tail(rows))

add_circles(map_obj, df_circles) ==
    IF df_circles = None \/ IsEmpty(df_circles) THEN map_obj
    ELSE [map_obj EXCEPT !.children = @ \o CirclesOf(df_circles.rows)]

(***************************************************************************)
(* SpecLayer: one layer builder called once on a fresh map with one        *)
(* dataset: absent, empty, or up to MaxDfRows rows over any subset of the  *)
(* sheet's columns.                                                        *)
(***************************************************************************)
LatLonCells == {Null, Num(0), Num(2)}

CoordCells ==
    {Null, Num(1),
     Str(EncJson(<<<<1, 2>>, <<2, 1>>, <<3, 3>>>>)),
     Str(EncSemi(<<<<1, 2>>, <<2, 1>>>>)),
     Str(<<"[", "1", "]">>),
     Str(<<"1", ",", "2">>)}

ColCells(col) ==
    CASE col \in {"latitude", "longitude"} -> LatLonCells
      [] col = "intensity" -> {Null, Num(3)}
      [] col = "coordinates" -> CoordCells
      [] col = "color" -> {Null, Green}
      [] col = "fill_color" -> {Null, Red}

LayerNames == {"markers", "lines", "polygons", "heatmap", "circles"}

SheetCols(name) ==
    CASE name \in {"markers", "circles"} -> {"latitude", "longitude"}
      [] name = "heatmap" -> {"latitude", "longitude", "intensity"}
      [] name = "polygons" -> {"coordinates", "color", "fill_color"}
      [] name = "lines" -> {"coordinates"}

RowsOver(cols) ==
    {r \in [cols -> UNION {ColCells(c) : c \in cols}] : \A c \in cols : r[c] \in ColCells(c)}

DataFrames(colset, maxrows) ==
    UNION {{DataFrame(cols, rows) : rows \in [1..n -> RowsOver(cols)]} :
             cols \in SUBSET colset, n \in 0..maxrows}

FreshMap == [location |-> <<Num(0), Num(0)>>, children |-> <<>>]

InitLayer ==
    /\ layer \in LayerNames
    /\ df \in {None} \cup {d \in DataFrames(SheetCols(layer), MaxDfRows) :
                              d.cols = {} => d.rows = <<>>}
    /\ use_cluster \in (IF layer = "markers" THEN BOOLEAN ELSE {TRUE})
    /\ m = FreshMap
    /\ pc = "call"
    /\ coord_strs = <<>> /\ parsed = <<>> /\ data = NoData /\ excel_data = None
    /\ arg_lat = None /\ arg_lon = None /\ center_lat = None /\ center_lon = None
    /\ output_file = None /\ steps = <<>>

LayerFrame ==
    UNCHANGED <<coord_strs, parsed, data, layer, df, excel_data, arg_lat, arg_lon,
                center_lat, center_lon, output_file, steps, use_cluster>>

CallAddMarkers ==
    /\ pc = "call" /\ layer = "markers"
    /\ m' = add_markers(m, df, use_cluster)
    /\ pc' = "returned"
    /\ LayerFrame

CallAddLines ==
    /\ pc = "call" /\ layer = "lines"
    /\ m' = add_lines(m, df)
    /\ pc' = "returned"
    /\ LayerFrame

CallAddPolygons ==
    /\ pc = "call" /\ layer = "polygons"
    /\ m' = add_polygons(m, df)
    /\ pc' = "returned"
    /\ LayerFrame

CallAddHeatmap ==
    /\ pc = "call" /\ layer = "heatmap"
    /\ m' = add_heatmap(m, df)
    /\ pc' = "returned"
    /\ LayerFrame

CallAddCircles ==
    /\ pc = "call" /\ layer = "circles"
    /\ m' = add_circles(m, df)
    /\ pc' = "returned"
    /\ LayerFrame

NextLayer ==
    \/ CallAddMarkers
    \/ CallAddLines
    \/ CallAddPolygons
    \/ CallAddHeatmap
    \/ CallAddCircles

SpecLayer == InitLayer /\ [][NextLayer]_vars

(***************************************************************************)
(* Properties of the layer builders                                        *)
(***************************************************************************)
HasValue(row, col) == col \in DOMAIN row /\ row[col].k # "null"

ValidPoint(row) == HasValue(row, "latitude") /\ HasValue(row, "longitude")

ValidCoords(row) ==
    "coordinates" \in DOMAIN row /\ parse_coordinate_string(row["coordinates"]) # <<>>

PassesGate(row) == IF layer \in {"lines", "polygons"} THEN ValidCoords(row) ELSE ValidPoint(row)

DfRows == IF df = None THEN <<>> ELSE df.rows

GatedRows == SelectSeq(DfRows, PassesGate)

\* the primitives on the map: a cluster counts by its markers, a density
\* layer by its points
RECURSIVE Primitives(_)
Primitives(children) ==
    IF children = <<>> THEN <<>>
    ELSE LET e == Head(children) IN
         (CASE e.kind = "MarkerCluster" -> e.children
            [] e.kind = "HeatMap" -> e.data
            [] OTHER -> <<e>>) \o Primitives(Tail(children))

PrimitiveMatches(p, row) ==
    CASE layer \in {"markers", "circles"} ->
            p.location = <<row["latitude"], row["longitude"]>>
      [] layer = "heatmap" -> p[1] = row["latitude"] /\ p[2] = row["longitude"]
      [] OTHER -> p.locations = parse_coordinate_string(row["coordinates"])

\* C2: every builder adds exactly one primitive per row that passes its
\* position gate (latitude and longitude both non-null; for lines and polygons
\* a non-empty decoded coordinate sequence), in row order, and nothing for any
\* other row or for an absent or empty dataset.
C2_OnePrimitivePerGatedRow ==
    pc = "returned" =>
        LET ps == Primitives(m.children) IN
        /\ Len(ps) = Len(GatedRows)
        /\ \A i \in 1..Len(ps) : PrimitiveMatches(ps[i], GatedRows[i])

\* A builder has skipped an invalid row and rendered the valid row after it.
C2_Witness ==
    /\ pc = "returned"
    /\ Len(DfRows) = 2 /\ ~PassesGate(DfRows[1]) /\ PassesGate(DfRows[2])
    /\ Len(Primitives(m.children)) = 1

\* C6: a present dataset whose every row fails validation leaves the map as an
\* absent sheet does: nothing is attached to it.
C6_AllInvalidLikeAbsent ==
    (pc = "returned" /\ df # None /\ GatedRows = <<>>) => m = FreshMap

ExpectedFill(row) ==
    IF HasValue(row, "fill_color") THEN row["fill_color"]
    ELSE IF HasValue(row, "color") THEN row["color"]
    ELSE LightBlue

\* C7: a rendered polygon is filled with its row's fill_color, or with the
\* row's outline colour when the row has no fill_color value (column missing
\* or cell blank), or with "lightblue" when it has neither.
C7_PolygonFill ==
    (pc = "returned" /\ layer = "polygons") =>
        \A i \in 1..Len(m.children) : m.children[i].fill_color = ExpectedFill(GatedRows[i])

ExpectedIntensity(row) ==
    IF HasValue(row, "intensity") THEN row["intensity"] ELSE Num(1)

\* C9: every collected heat point carries a numeric intensity: the row's, or 1
\* when the row has no intensity value (column missing or cell blank).
C9_NumericIntensity ==
    (pc = "returned" /\ layer = "heatmap") =>
        LET ps == Primitives(m.children) IN
        \A i \in 1..Len(ps) :
            ps[i][3].k = "num" /\ ps[i][3] = ExpectedIntensity(GatedRows[i])

(***************************************************************************)
(* create_map_from_excel                                                   *)
(***************************************************************************)
RECURSIVE Sum(_)
Sum(ns) == IF ns = <<>> THEN 0 ELSE Head(ns) + Sum(Tail(ns))

RECURSIVE GCD(_, _)
GCD(a, b) == IF b = 0 THEN a ELSE GCD(b, a % b)

\* a / b for b > 0, exact: a whole number when b divides a, else a reduced
\* fraction (floating-point rounding is not modelled)
Div(a, b) ==
    IF a % b = 0 THEN Num(a \div b)
    ELSE LET g == GCD(IF a < 0 THEN 0 - a ELSE a, b)
         IN [k |-> "frac", n |-> a \div g, d |-> b \div g]

\* df[col].dropna().tolist()
RECURSIVE DropNa(_, _)
DropNa(rows, col) ==
    IF rows = <<>> THEN <<>>
    ELSE (IF notna(Head(rows)[col]) THEN <<Head(rows)[col].n>> ELSE <<>>)
         \o DropNa(Tail(rows), col)

\* the loop with the heatmap sheet forgotten
CenterSheetsNoHeatmap == <<"markers", "circles">>

\* the datasets the centre is averaged over, in the order of the loop
CenterSheets == <<"markers", "heatmap", "circles">>

\* the values the loop extends all_lats / all_lons with
RECURSIVE Collect(_, _, _)
Collect(sheets, names, col) ==
    IF names = <<>> THEN <<>>
    ELSE LET d == sheets[Head(names)] IN
         (IF d # None /\ ~IsEmpty(d) /\ col \in d.cols THEN DropNa(d.rows, col) ELSE <<>>)
         \o Collect(sheets, Tail(names), col)

\* the (center_lat, center_lon) in force after the "calculate map center" block
Center(sheets, lat, lon) ==
    IF lat = None \/ lon = None THEN
        LET all_lats == Collect(sheets, CenterSheets, "latitude")
            all_lons == Collect(sheets, CenterSheets, "longitude")
        IN IF all_lats # <<>> /\ all_lons # <<>>
           THEN <<Div(Sum(all_lats), Len(all_lats)), Div(Sum(all_lons), Len(all_lons))>>
           ELSE <<Num(0), Num(0)>>
    ELSE <<lat, lon>>

(***************************************************************************)
(* Spec: one run of create_map_from_excel.  The workbook read from the     *)
(* file holds at most MaxRows rows over its five sheets.                   *)
(***************************************************************************)
PointRows ==
    {[latitude |-> Num(0), longitude |-> Num(0)],
     [latitude |-> Num(2), longitude |-> Num(2)],
     [latitude |-> Num(2), longitude |-> Null],
     [latitude |-> Null, longitude |-> Num(0)]}

CoordRows ==
    {[coordinates |-> Str(EncSemi(<<<<1, 2>>, <<2, 1>>>>))], [coordinates |-> Null]}

SheetRows(name) == IF name \in {"lines", "polygons"} THEN CoordRows ELSE PointRows

SheetColumns(name) ==
    IF name \in {"lines", "polygons"} THEN {"coordinates"} ELSE {"latitude", "longitude"}

\* the forms a sheet with n rows can take; a sheet without rows is absent or
\* holds only its header
SheetForms(name, n) ==
    IF n = 0 THEN {None, DataFrame(SheetColumns(name), <<>>)}
    ELSE {DataFrame(SheetColumns(name), rows) : rows \in [1..n -> SheetRows(name)]}

RowCounts ==
    {c \in [LayerNames -> 0..MaxRows] :
        c["markers"] + c["lines"] + c["polygons"] + c["heatmap"] + c["circles"] <= MaxRows}

Workbooks ==
    UNION {{[markers |-> a, lines |-> b, polygons |-> c, heatmap |-> d, circles |-> e] :
              a \in SheetForms("markers", cnt["markers"]),
              b \in SheetForms("lines", cnt["lines"]),
              c \in SheetForms("polygons", cnt["polygons"]),
              d \in SheetForms("heatmap", cnt["heatmap"]),
              e \in SheetForms("circles", cnt["circles"])} : cnt \in RowCounts}

CenterArgs == {None, Num(5)}

Init ==
    /\ pc = "read"
    /\ arg_lat \in CenterArgs /\ arg_lon \in CenterArgs
    /\ center_lat = arg_lat /\ center_lon = arg_lon
    /\ excel_data = None /\ m = None /\ output_file = None /\ steps = <<>>
    /\ use_cluster = TRUE
    /\ coord_strs = <<>> /\ parsed = <<>> /\ data = NoData /\ layer = Idle /\ df = None

RunFrame == UNCHANGED <<coord_strs, parsed, data, layer, df, arg_lat, arg_lon, use_cluster>>

\* pd.read_excel(excel_file, sheet_name=None) returns the workbook
ReadExcel ==
    /\ pc = "read"
    /\ \E wb \in Workbooks : excel_data' = wb
    /\ pc' = "center" /\ steps' = Append(steps, "read")
    /\ UNCHANGED <<center_lat, center_lon, m, output_file>>
    /\ RunFrame

\* pd.read_excel raises (missing or unreadable file): the run ends there
ReadExcelRaises ==
    /\ pc = "read"
    /\ pc' = "raised"
    /\ UNCHANGED <<excel_data, center_lat, center_lon, m, output_file, steps>>
    /\ RunFrame

ComputeCenter ==
    /\ pc = "center"
    /\ center_lat' = Center(excel_data, center_lat, center_lon)[1]
    /\ center_lon' = Center(excel_data, center_lat, center_lon)[2]
    /\ pc' = "map" /\ steps' = Append(steps, "center")
    /\ UNCHANGED <<excel_data, m, output_file>>
    /\ RunFrame

CreateBaseMap ==
    /\ pc = "map"
    /\ m' = [location |-> <<center_lat, center_lon>>, children |-> <<>>]
    /\ pc' = "tiles" /\ steps' = Append(steps, "map")
    /\ UNCHANGED <<excel_data, center_lat, center_lon, output_file>>
    /\ RunFrame

AddTileLayers ==
    /\ pc = "tiles"
    /\ m' = AddTo(AddTo(m, [kind |-> "TileLayer", name |-> "Light Mode"]),
                  [kind |-> "TileLayer", name |-> "Dark Mode"])
    /\ pc' = "markers" /\ steps' = Append(steps, "tiles")
    /\ UNCHANGED <<excel_data, center_lat, center_lon, output_file>>
    /\ RunFrame

AddMarkers ==
    /\ pc = "markers"
    /\ m' = add_markers(m, excel_data["markers"], TRUE)
    /\ pc' = "polygons" /\ steps' = Append(steps, "markers")
    /\ UNCHANGED <<excel_data, center_lat, center_lon, output_file>>
    /\ RunFrame

\* add_polygons followed directly by add_heatmap
AddPolygonsSkipCircles ==
    /\ pc = "polygons"
    /\ m' = add_polygons(m, excel_data["polygons"])
    /\ pc' = "heatmap" /\ steps' = Append(steps, "polygons")
    /\ UNCHANGED <<excel_data, center_lat, center_lon, output_file>>
    /\ RunFrame

AddPolygons ==
    /\ pc = "polygons"
    /\ m' = add_polygons(m, excel_data["polygons"])
    /\ pc' = "circles" /\ steps' = Append(steps, "polygons")
    /\ UNCHANGED <<excel_data, center_lat, center_lon, output_file>>
    /\ RunFrame

AddCircles ==
    /\ pc = "circles"
    /\ m' = add_circles(m, excel_data["circles"])
    /\ pc' = "heatmap" /\ steps' = Append(steps, "circles")
    /\ UNCHANGED <<excel_data, center_lat, center_lon, output_file>>
    /\ RunFrame

AddHeatmap ==
    /\ pc = "heatmap"
    /\ m' = add_heatmap(m, excel_data["heatmap"])
    /\ pc' = "lines" /\ steps' = Append(steps, "heatmap")
    /\ UNCHANGED <<excel_data, center_lat, center_lon, output_file>>
    /\ RunFrame

AddLines ==
    /\ pc = "lines"
    /\ m' = add_lines(m, excel_data["lines"])
    /\ pc' = "control" /\ steps' = Append(steps, "lines")
    /\ UNCHANGED <<excel_data, center_lat, center_lon, output_file>>
    /\ RunFrame

AddLayerControl ==
    /\ pc = "control"
    /\ m' = AddTo(m, [kind |-> "LayerControl"])
    /\ pc' = "glow" /\ steps' = Append(steps, "control")
    /\ UNCHANGED <<excel_data, center_lat, center_lon, output_file>>
    /\ RunFrame

AddCenterGlow ==
    /\ pc = "glow"
    /\ m' = AddTo(m, [kind |-> "CircleMarker", location |-> <<center_lat, center_lon>>])
    /\ pc' = "save" /\ steps' = Append(steps, "glow")
    /\ UNCHANGED <<excel_data, center_lat, center_lon, output_file>>
    /\ RunFrame

SaveMap ==
    /\ pc = "save"
    /\ output_file' = m
    /\ pc' = "done" /\ steps' = Append(steps, "save")
    /\ UNCHANGED <<excel_data, center_lat, center_lon, m>>
    /\ RunFrame

Next ==
    \/ ReadExcel
    \/ ReadExcelRaises
    \/ ComputeCenter
    \/ CreateBaseMap
    \/ AddTileLayers
    \/ AddMarkers
    \/ AddPolygons
    \/ AddCircles
    \/ AddHeatmap
    \/ AddLines
    \/ AddLayerControl
    \/ AddCenterGlow
    \/ SaveMap

Spec == Init /\ [][Next]_vars

(***************************************************************************)
(* Properties of a run                                                     *)
(***************************************************************************)
SheetRowsOf(name) == IF excel_data[name] = None THEN <<>> ELSE excel_data[name].rows

RECURSIVE ColumnValues(_, _)
ColumnValues(rows, col) ==
    IF rows = <<>> THEN <<>>
    ELSE (IF HasValue(Head(rows), col) THEN <<Head(rows)[col].n>> ELSE <<>>)
         \o ColumnValues(Tail(rows), col)

\* every non-null value of the column in the markers, heatmap and circles sheets
Available(col) ==
    ColumnValues(SheetRowsOf("markers"), col)
    \o ColumnValues(SheetRowsOf("heatmap"), col)
    \o ColumnValues(SheetRowsOf("circles"), col)

\* c is the number v
IsNumberValue(c, v) == (c.k = "num" /\ c.n = v) \/ (c.k = "frac" /\ c.n = v * c.d)

\* c is the arithmetic mean of vs (vs not empty)
IsMeanOf(c, vs) ==
    \/ c.k = "num" /\ c.n * Len(vs) = Sum(vs)
    \/ c.k = "frac" /\ c.n * Len(vs) = Sum(vs) * c.d

MeanOrZero(c, vs) == IF vs = <<>> THEN IsNumberValue(c, 0) ELSE IsMeanOf(c, vs)

NoCenterGiven == arg_lat = None /\ arg_lon = None

\* C4 (as stated): called without a center, the map's center latitude is the
\* mean of the available latitudes and its center longitude the mean of the
\* available longitudes of markers, heatmap and circles; 0 where none is
\* available.
C4_CenterIsMeanPerCoordinate ==
    (NoCenterGiven /\ m # None) =>
        /\ MeanOrZero(m.location[1], Available("latitude"))
        /\ MeanOrZero(m.location[2], Available("longitude"))

\* C4 (amended): called without a center, the map is centred on (mean of the
\* available latitudes, mean of the available longitudes) of markers, heatmap
\* and circles when at least one latitude and at least one longitude are
\* available, and on (0, 0) otherwise.
C4_CenterIsMean ==
    (NoCenterGiven /\ m # None) =>
        IF Available("latitude") # <<>> /\ Available("longitude") # <<>>
        THEN /\ IsMeanOf(m.location[1], Available("latitude"))
             /\ IsMeanOf(m.location[2], Available("longitude"))
        ELSE /\ IsNumberValue(m.location[1], 0)
             /\ IsNumberValue(m.location[2], 0)

\* Markers at (0,0) and (2,2) only: the map is centred on (1,1).
C4_Witness ==
    /\ NoCenterGiven /\ m # None
    /\ excel_data["markers"] # None
    /\ excel_data["markers"].rows = <<[latitude |-> Num(0), longitude |-> Num(0)],
                                       [latitude |-> Num(2), longitude |-> Num(2)]>>
    /\ excel_data["heatmap"] = None /\ excel_data["circles"] = None
    /\ m.location = <<Num(1), Num(1)>>

GlowsOf(children) == SelectSeq(children, LAMBDA e : e.kind = "CircleMarker")

\* C5: a center coordinate the caller passes is the one the base map and the
\* decorative center marker are placed at, whether or not the other one is
\* passed.
C5_GivenCenterUsed ==
    m # None =>
        /\ arg_lat # None =>
              /\ m.location[1] = arg_lat
              /\ \A i \in 1..Len(GlowsOf(m.children)) : GlowsOf(m.children)[i].location[1] = arg_lat
        /\ arg_lon # None =>
              /\ m.location[2] = arg_lon
              /\ \A i \in 1..Len(GlowsOf(m.children)) : GlowsOf(m.children)[i].location[2] = arg_lon

HeatMapsOf(children) == SelectSeq(children, LAMBDA e : e.kind = "HeatMap")

ValidHeatRows == SelectSeq(SheetRowsOf("heatmap"), ValidPoint)

FeatureKinds == {"Marker", "MarkerCluster", "PolyLine", "Polygon", "Circle"}

OnlyHeatmapTab ==
    /\ excel_data["heatmap"] # None
    /\ \A name \in LayerNames \ {"heatmap"} : excel_data[name] = None

HeatmapStepDone == \E i \in 1..Len(steps) : steps[i] = "heatmap"

\* C8: add_heatmap adds exactly one density layer, holding every row with
\* non-null latitude and longitude in row order, when there is such a row, and
\* no layer otherwise; a finished run on a workbook whose only tab is heatmap
\* with valid rows holds exactly one density layer and no marker, cluster,
\* line, polygon or circle element.
C8_OneDensityLayer ==
    /\ (m # None /\ ~HeatmapStepDone) => HeatMapsOf(m.children) = <<>>
    /\ HeatmapStepDone =>
          LET hs == HeatMapsOf(m.children) IN
          IF ValidHeatRows = <<>> THEN hs = <<>>
          ELSE /\ Len(hs) = 1
               /\ Len(hs[1].data) = Len(ValidHeatRows)
               /\ \A i \in 1..Len(ValidHeatRows) :
                     /\ hs[1].data[i][1] = ValidHeatRows[i]["latitude"]
                     /\ hs[1].data[i][2] = ValidHeatRows[i]["longitude"]
    /\ (pc = "done" /\ OnlyHeatmapTab /\ ValidHeatRows # <<>>) =>
          /\ Len(HeatMapsOf(output_file.children)) = 1
          /\ \A i \in 1..Len(output_file.children) :
                output_file.children[i].kind \notin FeatureKinds

\* A run on a heatmap-only workbook with two valid rows has been saved with
\* its density layer.
C8_Witness ==
    /\ pc = "done" /\ OnlyHeatmapTab
    /\ Len(ValidHeatRows) = 2
    /\ Len(HeatMapsOf(output_file.children)) = 1

StepOrder ==
    <<"read", "center", "map", "tiles", "markers", "polygons", "circles", "heatmap",
      "lines", "control", "glow", "save">>

KindRank(kind) ==
    CASE kind = "TileLayer" -> 1
      [] kind = "MarkerCluster" -> 2
      [] kind = "Polygon" -> 3
      [] kind = "Circle" -> 4
      [] kind = "HeatMap" -> 5
      [] kind = "PolyLine" -> 6
      [] kind = "LayerControl" -> 7
      [] kind = "CircleMarker" -> 8

CountKind(children, kind) == Len(SelectSeq(children, LAMBDA e : e.kind = kind))

\* C10: the steps of a run happen once each in the fixed order load, center,
\* base map, tile layers, markers, polygons, circles, heatmap, lines, layer
\* control, center marker, save; the elements sit on the map in that order,
\* with two tile layers and one center marker at the map's center; the file
\* is written only after every builder, and holds the complete map; if
\* loading raises, no builder runs and no file is written.
C10_FixedOrder ==
    /\ steps = SubSeq(StepOrder, 1, Len(steps))
    /\ pc = "done" => steps = StepOrder
    /\ output_file # None =>
          /\ \A b \in LayerNames : \E i \in 1..Len(steps) : steps[i] = b
          /\ output_file = m
          /\ CountKind(m.children, "TileLayer") = 2
          /\ CountKind(m.children, "LayerControl") = 1
          /\ CountKind(m.children, "CircleMarker") = 1
          /\ m.children[Len(m.children)].location = m.location
    /\ m # None =>
          \A i \in 1..Len(m.children) : \A j \in i..Len(m.children) :
              KindRank(m.children[i].kind) <= KindRank(m.children[j].kind)
    /\ pc = "raised" => steps = <<>> /\ m = None /\ output_file = None

\* A run has been saved whose map holds both a circle and, after it, a line.
C10_Witness ==
    /\ pc = "done" /\ output_file # None
    /\ CountKind(output_file.children, "Circle") = 1
    /\ CountKind(output_file.children, "PolyLine") = 1

====
